---- MODULE Spec2Model ----
(***************************************************************************)
(* The ChatRoom Durable Object of clairvora-chat: one actor per room that  *)
(* owns a session map keyed by WebSocket, a SQLite message log, the room   *)
(* id, the last verified token payload, and the asynchronous work it has   *)
(* in flight (token validation, the PHP end-reading call, the PHP message  *)
(* sync, the close timer).  Every handler is one action; a handler that    *)
(* awaits is split at the await into the part before it and the            *)
(* continuation after it.  The payloads a handler sends, in order, are     *)
(* recorded in fx; ev names the handler that ran last.                     *)
(***************************************************************************)
EXTENDS Integers, Sequences, FiniteSets, TLC

\* ---------------------------------------------------------------- bounds
NConn == 2          \* WebSocket connections the room accepts in a run
MaxLog == 2         \* rows the messages table receives in a run
MaxClock == 0       \* largest value Date.now() returns in a run
MaxTimers == 1      \* close timers pending at once
MaxAwaits == 1      \* validateToken and endReading calls awaited at once
MaxSync == 1        \* syncMessageToPhp calls in flight at once
MaxLimit == 2       \* largest limit tried besides the program's own
MaxRows == 3         \* rows of the logs getRecentMessages is tried on
MaxStamp == 1        \* largest timestamp of those logs

\* ------------------------------------------------------ program constants
HistoryLimit == 100
MaxContentLen == 1000
CloseUnauthorized == 4001
CloseForbidden == 4003
CloseNormal == 1000
GraceDelayMs == 1000

Conns == 1..NConn
NoConn == 0

VARIABLES
  env,          \* [JWT_SECRET: BOOLEAN, ENVIRONMENT: STRING], fixed per run
  live,         \* each socket: "unopened", "open", "closing" (its transport
                \* failed or the server closed it; its close or error event
                \* is still to come), "gone" (that event has run)
  sessions,     \* this.sessions: the Map's keys in insertion order
  obj,          \* the SessionData object of each connection
  att,          \* ws.serializeAttachment snapshot of each connection
  roomId,       \* this.roomId, "" for null
  tokenPayload, \* this.tokenPayload, NullPayload for null
  log,          \* rows of the messages table in insertion (rowid) order
  pendingAuth,  \* per connection: the token whose validateToken is awaited
  pendingEnd,   \* per connection: the endReading call that is awaited
  timers,       \* setTimeout callbacks not yet run
  pendingSync,  \* message ids whose syncMessageToPhp is in flight
  ev,           \* the handler that ran last and its outcome
  fx            \* what that handler did, in program order

vars == <<env, live, sessions, obj, att, roomId, tokenPayload, log,
          pendingAuth, pendingEnd, timers, pendingSync, ev, fx>>

\* ------------------------------------------------------------- data types
\* SessionData of a freshly accepted socket.
AnonSession ==
  [userId |-> "", userType |-> "client", userName |-> "Anonymous",
   authenticated |-> FALSE]

\* TokenPayload; the fields the room uses.  NullPayload stands for null.
NullPayload ==
  [sub |-> "", reading_id |-> "", user_type |-> "", user_name |-> "",
   client_id |-> "", advisor_id |-> ""]

\* The room this actor is addressed by: the worker passes the name it derived
\* the actor from as room_id on every upgrade.
RoomName == "r1"

Tokens == {"tA", "tB", "tX", "tBad"}

\* jose.jwtVerify: the claims of a token whose signature, algorithm and issuer
\* verify; NullPayload when it throws.
jwtVerify(token) ==
  CASE token = "tA" ->
         [sub |-> "u1", reading_id |-> "r1", user_type |-> "client",
          user_name |-> "Alice", client_id |-> "c1", advisor_id |-> "a1"]
    [] token = "tB" ->
         [sub |-> "u2", reading_id |-> "r1", user_type |-> "advisor",
          user_name |-> "Bob", client_id |-> "c1", advisor_id |-> "a1"]
    [] token = "tX" ->
         [sub |-> "u1", reading_id |-> "r2", user_type |-> "client",
          user_name |-> "Alice", client_id |-> "c1", advisor_id |-> "a9"]
    [] OTHER -> NullPayload

validateToken(token) ==
  LET payload == jwtVerify(token) IN
  IF payload = NullPayload THEN NullPayload
  ELSE IF payload.sub = "" \/ payload.reading_id = "" \/ payload.user_type = ""
          \/ payload.user_name = ""
       THEN NullPayload
       ELSE payload

\* The auth frames tried: one per token, and two without a token carrying the
\* development-mode fields.
AuthData ==
  {[token |-> t, userId |-> "", userType |-> "", userName |-> ""] : t \in Tokens}
  \cup {[token |-> "", userId |-> "", userType |-> "", userName |-> ""],
        [token |-> "", userId |-> "d1", userType |-> "advisor", userName |-> "Dee"]}

\* ---------------------------------------------------------------- effects
Fx(op, to, kind, ok, auth, body) ==
  [op |-> op, to |-> to, kind |-> kind, ok |-> ok, auth |-> auth, body |-> body]

InReg(c) == \E i \in 1..Len(sessions) : sessions[i] = c

\* ws.send succeeds on a socket that is open and throws on any other.
CanSend(c) == live[c] = "open"

\* webSocketMessage runs for a socket until its close or error event has run:
\* a frame that arrived before the transport failed, or that the peer sent
\* before it saw the server's close, is still delivered.
Receives(c) == live[c] \in {"open", "closing"}

\* ws.send(JSON.stringify({type: kind, ...body})) under the session objects objs.
SendFx(c, kind, body, objs) ==
  Fx("send", c, kind, CanSend(c), objs[c].authenticated, body)

\* The catch of webSocketMessage: report to the sender; when that send throws
\* too the handler's promise rejects.
CatchFx(c, objs) ==
  <<SendFx(c, "error", "Invalid message format", objs)>>
  \o (IF CanSend(c) THEN <<>> ELSE <<Fx("unhandled", c, "", FALSE, FALSE, "")>>)

\* Sends to one socket in a row inside webSocketMessage's try: the first one
\* throws when the socket cannot send, and the catch runs.
SendsTo(c, sends, objs) ==
  IF sends = <<>> \/ CanSend(c) THEN sends ELSE <<sends[1]>> \o CatchFx(c, objs)

\* broadcast without the test of session.authenticated.
RECURSIVE broadcastToAll(_, _, _, _, _, _)
broadcastToAll(i, sess, objs, kind, body, exclude) ==
  IF i > Len(sess) THEN <<>>
  ELSE LET ws == sess[i]
           rest == broadcastToAll(i + 1, sess, objs, kind, body, exclude)
       IN IF ws = exclude THEN rest
          ELSE <<SendFx(ws, kind, body, objs)>> \o rest

\* broadcast without the try/catch around ws.send: the first send that throws
\* ends the loop.
RECURSIVE broadcastUntilThrow(_, _, _, _, _, _)
broadcastUntilThrow(i, sess, objs, kind, body, exclude) ==
  IF i > Len(sess) THEN <<>>
  ELSE LET ws == sess[i]
           rest == broadcastUntilThrow(i + 1, sess, objs, kind, body, exclude)
       IN IF ws = exclude THEN rest
          ELSE IF ~objs[ws].authenticated THEN rest
          ELSE IF ~CanSend(ws) THEN <<SendFx(ws, kind, body, objs)>>
          ELSE <<SendFx(ws, kind, body, objs)>> \o rest

\* broadcast(message, exclude): the Map in insertion order, from entry i on.
RECURSIVE broadcastFrom(_, _, _, _, _, _)
broadcastFrom(i, sess, objs, kind, body, exclude) ==
  IF i > Len(sess) THEN <<>>
  ELSE LET ws == sess[i]
           rest == broadcastFrom(i + 1, sess, objs, kind, body, exclude)
       IN IF ws = exclude THEN rest
          ELSE IF ~objs[ws].authenticated THEN rest
          ELSE <<SendFx(ws, kind, body, objs)>> \o rest

broadcast(sess, objs, kind, body, exclude) ==
  broadcastFrom(1, sess, objs, kind, body, exclude)

Participant(s) ==
  [userId |-> s.userId, userType |-> s.userType, userName |-> s.userName]

RECURSIVE participantsFrom(_, _, _)
participantsFrom(i, sess, objs) ==
  IF i > Len(sess) THEN <<>>
  ELSE LET session == objs[sess[i]]
           rest == participantsFrom(i + 1, sess, objs)
       IN IF session.authenticated THEN <<Participant(session)>> \o rest ELSE rest

getParticipantList(sess, objs) == participantsFrom(1, sess, objs)

\* The orders in which SELECT ... ORDER BY timestamp DESC may yield the rows of
\* the table: any order with non-increasing timestamps (the statement names no
\* second sort key, so rows of equal timestamp come in an order SQL leaves open).
SqlOrders(rows) ==
  {p \in [1..Len(rows) -> 1..Len(rows)] :
     /\ \A i, j \in 1..Len(rows) : i # j => p[i] # p[j]
     /\ \A i, j \in 1..Len(rows) :
          i < j => rows[p[i]].timestamp >= rows[p[j]].timestamp}

Min(a, b) == IF a < b THEN a ELSE b

Reverse(s) == [i \in 1..Len(s) |-> s[Len(s) + 1 - i]]

\* getRecentMessages(limit) when the cursor yields the rows in `order`.
getRecentMessages(rows, limit, order) ==
  LET messages == [i \in 1..Min(limit, Len(rows)) |-> rows[order[i]]]
  IN Reverse(messages)

\* Message content is a sequence of characters.
Contents == {<<>>, <<" ">>, <<"<", "b", ">">>}

IsBlank(content) == \A i \in 1..Len(content) : content[i] = " "

Escape(ch) ==
  CASE ch = "&" -> <<"&", "a", "m", "p", ";">>
    [] ch = "<" -> <<"&", "l", "t", ";">>
    [] ch = ">" -> <<"&", "g", "t", ";">>
    [] ch = "\"" -> <<"&", "q", "u", "o", "t", ";">>
    [] ch = "'" -> <<"&", "#", "0", "3", "9", ";">>
    [] OTHER -> <<ch>>

RECURSIVE escapeFrom(_, _)
escapeFrom(i, content) ==
  IF i > Len(content) THEN <<>>
  ELSE Escape(content[i]) \o escapeFrom(i + 1, content)

sanitizeContent(content) ==
  LET escaped == escapeFrom(1, content)
  IN SubSeq(escaped, 1, Min(Len(escaped), MaxContentLen))

StoredMessage(m) ==
  [id |-> m.id, user_id |-> m.userId, user_type |-> m.userType,
   user_name |-> m.userName, content |-> m.content, timestamp |-> m.timestamp]

\* Date.now(): never below a value it returned for an earlier row.
Clock(rows) ==
  (IF rows = <<>> THEN 0 ELSE rows[Len(rows)].timestamp)..MaxClock

Awaits ==
  Cardinality({c \in Conns : pendingAuth[c] # ""})
  + Cardinality({c \in Conns : pendingEnd[c].active})

NoEnd == [active |-> FALSE, endedBy |-> "", reason |-> ""]

Ev(name, c, authed, note) ==
  [name |-> name, conn |-> c, authed |-> authed, note |-> note]

Init ==
  /\ env \in {[JWT_SECRET |-> TRUE, ENVIRONMENT |-> "production"],
              [JWT_SECRET |-> FALSE, ENVIRONMENT |-> "development"],
              [JWT_SECRET |-> FALSE, ENVIRONMENT |-> "production"]}
  /\ live = [c \in Conns |-> "unopened"]
  /\ sessions = <<>>
  /\ obj = [c \in Conns |-> AnonSession]
  /\ att = [c \in Conns |-> AnonSession]
  /\ roomId = ""
  /\ tokenPayload = NullPayload
  /\ log = <<>>
  /\ pendingAuth = [c \in Conns |-> ""]
  /\ pendingEnd = [c \in Conns |-> NoEnd]
  /\ timers = 0
  /\ pendingSync = {}
  /\ ev = [name |-> "init", conn |-> NoConn, authed |-> FALSE, note |-> ""]
  /\ fx = <<>>

\* ev and fx observe the handler that ran last and are read by no handler.  A
\* handler that only answers (a reply to the sender, a typing or history
\* result, a blank or failed message) leaves every other variable as it was,
\* so whatever can follow it can follow the state it ran in and reaches the
\* same states from there; the search takes no step from such an echo state.
Echo ==
  \/ ev.name \in {"ping", "typing", "history"}
  \/ ev.note \in {"unauth", "nosession", "nocontext", "blank", "insert_failed"}

\* fetch on /websocket: roomId from the query, then handleWebSocketUpgrade.
Upgrade(c) ==
  /\ ~Echo
  /\ live[c] = "unopened"
  /\ \A d \in Conns : d < c => live[d] # "unopened"
  /\ roomId' = RoomName
  /\ live' = [live EXCEPT ![c] = "open"]
  /\ obj' = [obj EXCEPT ![c] = AnonSession]
  /\ att' = [att EXCEPT ![c] = AnonSession]
  /\ sessions' = Append(sessions, c)
  /\ ev' = Ev("upgrade", c, FALSE, "")
  /\ fx' = <<>>
  /\ UNCHANGED <<env, tokenPayload, log, pendingAuth,
                 pendingEnd, timers, pendingSync>>

\* A SessionData object that neither the Map nor a suspended handler refers to
\* is garbage; the model keeps the initial object in its place.
Collect(objs, sess, pAuth, pEnd) ==
  [c \in Conns |->
     IF \/ \E i \in 1..Len(sess) : sess[i] = c
        \/ pAuth[c] # ""
        \/ pEnd[c].active
     THEN objs[c] ELSE AnonSession]

\* webSocketMessage up to the dispatch: a frame whose handler only answers
\* the sender and touches nothing else.
Reply(c, name, note, sends) ==
  /\ ev' = Ev(name, c, InReg(c) /\ obj[c].authenticated, note)
  /\ fx' = SendsTo(c, sends, obj)
  /\ UNCHANGED <<env, live, sessions, obj, att, roomId, tokenPayload,
                 log, pendingAuth, pendingEnd, timers, pendingSync>>

NoSession(c, name) ==
  Reply(c, name, "nosession", <<SendFx(c, "error", "No session", obj)>>)

NotAuthenticated(c, name) ==
  Reply(c, name, "unauth", <<SendFx(c, "error", "Not authenticated", obj)>>)

\* handleAuth, a failed attempt: auth_error to the caller, then close(code).
authRejectFx(c, message, code) ==
  IF CanSend(c)
  THEN <<SendFx(c, "auth_error", message, obj),
         Fx("close", c, "", TRUE, obj[c].authenticated, code)>>
  ELSE <<SendFx(c, "auth_error", message, obj)>> \o CatchFx(c, obj)

\* handleAuth reporting the failure without the call of ws.close.
AuthRejectNoClose(c, name, note, message, code) ==
  /\ ev' = Ev(name, c, obj[c].authenticated, note)
  /\ fx' = SendsTo(c, <<SendFx(c, "auth_error", message, obj)>>, obj)
  /\ obj' = Collect(obj, sessions, [pendingAuth EXCEPT ![c] = ""], pendingEnd)
  /\ UNCHANGED <<env, live, sessions, att, roomId, tokenPayload, log,
                 pendingEnd, timers, pendingSync>>

AuthReject(c, name, note, message, code) ==
  /\ ev' = Ev(name, c, obj[c].authenticated, note)
  /\ fx' = authRejectFx(c, message, code)
  /\ live' = IF CanSend(c) THEN [live EXCEPT ![c] = "closing"] ELSE live
  /\ obj' = Collect(obj, sessions, [pendingAuth EXCEPT ![c] = ""], pendingEnd)
  /\ UNCHANGED <<env, sessions, att, roomId, tokenPayload, log,
                 pendingEnd, timers, pendingSync>>

\* handleAuth building the participant list from the sessions as they were
\* before the session was updated.
authSuccessFxStaleList(c, sess, objs, order) ==
  LET s == objs[c]
      presenceMsg == [userId |-> s.userId, userType |-> s.userType,
                      userName |-> s.userName, status |-> "online"]
  IN IF CanSend(c)
     THEN <<SendFx(c, "auth_success",
                   [userId |-> s.userId,
                    participants |-> getParticipantList(sess, obj)], objs),
            SendFx(c, "history", getRecentMessages(log, HistoryLimit, order), objs)>>
          \o broadcast(sess, objs, "presence", presenceMsg, c)
     ELSE <<SendFx(c, "auth_success",
                   [userId |-> s.userId,
                    participants |-> getParticipantList(sess, obj)], objs)>>
          \o CatchFx(c, objs)

\* handleAuth from "Update session" on: what is sent once the session object,
\* its snapshot and the Map entry are written.
authSuccessFx(c, sess, objs, order) ==
  LET s == objs[c]
      presenceMsg == [userId |-> s.userId, userType |-> s.userType,
                      userName |-> s.userName, status |-> "online"]
  IN IF CanSend(c)
     THEN <<SendFx(c, "auth_success",
                   [userId |-> s.userId,
                    participants |-> getParticipantList(sess, objs)], objs),
            SendFx(c, "history", getRecentMessages(log, HistoryLimit, order), objs)>>
          \o broadcast(sess, objs, "presence", presenceMsg, c)
     ELSE <<SendFx(c, "auth_success",
                   [userId |-> s.userId,
                    participants |-> getParticipantList(sess, objs)], objs)>>
          \o CatchFx(c, objs)

\* sessions.set(ws, session): a key already in the Map keeps its place.
MapSet(sess, c) ==
  IF \E i \in 1..Len(sess) : sess[i] = c THEN sess ELSE Append(sess, c)

AuthSuccess(c, name, userId, userType, userName, payload) ==
  LET session == [userId |-> userId, userType |-> userType,
                  userName |-> userName, authenticated |-> TRUE]
      objs == [obj EXCEPT ![c] = session]
      sess == MapSet(sessions, c)
  IN /\ tokenPayload' = payload
     /\ obj' = objs
     /\ att' = IF live[c] = "gone" THEN att ELSE [att EXCEPT ![c] = session]
     /\ sessions' = sess
     /\ ev' = Ev(name, c, obj[c].authenticated, "ok")
     /\ \E order \in SqlOrders(log) : fx' = authSuccessFx(c, sess, objs, order)
     /\ UNCHANGED <<env, live, roomId, log, pendingEnd, timers,
                    pendingSync>>

\* crypto.randomUUID() for a user id: a value no caller supplies, one per socket.
randomUUID(c) == "g" \o ToString(c)

\* webSocketMessage, case "auth", up to the await of validateToken or, without
\* one, to the end of handleAuth.
AuthFrame(c, data) ==
  /\ ~Echo
  /\ Receives(c)
  /\ IF ~InReg(c) THEN NoSession(c, "auth") /\ UNCHANGED pendingAuth
     ELSE IF data.token # "" /\ env.JWT_SECRET
     THEN /\ pendingAuth[c] = ""
          /\ Awaits < MaxAwaits
          /\ pendingAuth' = [pendingAuth EXCEPT ![c] = data.token]
          /\ ev' = Ev("auth_await", c, obj[c].authenticated, "")
          /\ fx' = <<>>
          /\ UNCHANGED <<env, live, sessions, obj, att, roomId,
                         tokenPayload, log, pendingEnd, timers, pendingSync>>
     ELSE IF env.ENVIRONMENT = "development" /\ ~env.JWT_SECRET
     THEN /\ AuthSuccess(c, "auth",
                         IF data.userId # "" THEN data.userId ELSE randomUUID(c),
                         IF data.userType = "advisor" THEN "advisor" ELSE "client",
                         IF data.userName # "" THEN data.userName ELSE "Anonymous",
                         tokenPayload)
          /\ UNCHANGED pendingAuth
     ELSE /\ AuthReject(c, "auth", "token_required", "Token required",
                        CloseUnauthorized)
          /\ UNCHANGED pendingAuth

\* handleAuth after the await, without the comparison of reading_id and roomId.
AuthResumeAnyRoom(c) ==
  /\ ~Echo
  /\ pendingAuth[c] # ""
  /\ pendingAuth' = [pendingAuth EXCEPT ![c] = ""]
  /\ LET payload == validateToken(pendingAuth[c]) IN
     IF payload = NullPayload
     THEN AuthReject(c, "auth_resume", "invalid", "Invalid or expired token",
                     CloseUnauthorized)
     ELSE AuthSuccess(c, "auth_resume", payload.sub, payload.user_type,
                      payload.user_name, payload)

\* handleAuth after the await of validateToken.
AuthResume(c) ==
  /\ ~Echo
  /\ pendingAuth[c] # ""
  /\ pendingAuth' = [pendingAuth EXCEPT ![c] = ""]
  /\ LET payload == validateToken(pendingAuth[c]) IN
     IF payload = NullPayload
     THEN AuthReject(c, "auth_resume", "invalid", "Invalid or expired token",
                     CloseUnauthorized)
     ELSE IF roomId # "" /\ payload.reading_id # roomId
     THEN AuthReject(c, "auth_resume", "mismatch", "Token not valid for this room",
                     CloseForbidden)
     ELSE AuthSuccess(c, "auth_resume", payload.sub, payload.user_type,
                      payload.user_name, payload)

\* handleChatMessage with the broadcast ahead of the INSERT.
chatMessageFxBroadcastFirst(c, message, inserted) ==
  IF ~inserted
  THEN broadcast(sessions, obj, "message", message, NoConn)
       \o <<Fx("insert", c, "message", FALSE, TRUE, message)>> \o CatchFx(c, obj)
  ELSE broadcast(sessions, obj, "message", message, NoConn)
       \o <<Fx("insert", c, "message", TRUE, TRUE, message)>>
       \o (IF tokenPayload # NullPayload /\ roomId # ""
           THEN <<Fx("sync", c, "message", TRUE, TRUE, message)>> ELSE <<>>)

\* handleChatMessage whose broadcast of the row before this one ran late: it
\* goes out after the broadcast of this row.
chatMessageFxOvertaken(c, message, inserted) ==
  IF ~inserted
  THEN <<Fx("insert", c, "message", FALSE, TRUE, message)>> \o CatchFx(c, obj)
  ELSE <<Fx("insert", c, "message", TRUE, TRUE, message)>>
       \o broadcast(sessions, obj, "message", message, NoConn)
       \o (IF log = <<>> THEN <<>>
           ELSE broadcast(sessions, obj, "message",
                          [message EXCEPT !.id = Len(log)], NoConn))
       \o (IF tokenPayload # NullPayload /\ roomId # ""
           THEN <<Fx("sync", c, "message", TRUE, TRUE, message)>> ELSE <<>>)

\* handleChatMessage from the INSERT on, for a message with content: the
\* INSERT, then the broadcast to all, then the sync job when the room context
\* is there.  An INSERT that throws ends the handler in webSocketMessage's catch.
chatMessageFx(c, message, inserted) ==
  IF ~inserted
  THEN <<Fx("insert", c, "message", FALSE, TRUE, message)>> \o CatchFx(c, obj)
  ELSE <<Fx("insert", c, "message", TRUE, TRUE, message)>>
       \o broadcast(sessions, obj, "message", message, NoConn)
       \o (IF tokenPayload # NullPayload /\ roomId # ""
           THEN <<Fx("sync", c, "message", TRUE, TRUE, message)>> ELSE <<>>)

handleChatMessage(c, content) ==
  IF IsBlank(content)
  THEN /\ ev' = Ev("message", c, TRUE, "blank")
       /\ fx' = <<>>
       /\ UNCHANGED <<log, pendingSync>>
  ELSE /\ Len(log) < MaxLog
       /\ tokenPayload # NullPayload /\ roomId # "" => Cardinality(pendingSync) < MaxSync
       /\ \E inserted \in BOOLEAN, now \in Clock(log) :
            LET session == obj[c]
                message == [id |-> Len(log) + 1,
                            content |-> sanitizeContent(content),
                            userId |-> session.userId,
                            userType |-> session.userType,
                            userName |-> session.userName,
                            timestamp |-> now]
            IN /\ ev' = Ev("message", c, TRUE,
                           IF inserted THEN "accepted" ELSE "insert_failed")
               /\ fx' = chatMessageFx(c, message, inserted)
               /\ log' = IF inserted THEN Append(log, StoredMessage(message)) ELSE log
               /\ pendingSync' =
                    IF inserted /\ tokenPayload # NullPayload /\ roomId # ""
                    THEN pendingSync \cup {message.id} ELSE pendingSync

\* webSocketMessage, case "message", without the test of session.authenticated.
ChatFrameUngated(c, content) ==
  /\ ~Echo
  /\ Receives(c)
  /\ IF ~InReg(c) THEN NoSession(c, "message")
     ELSE /\ handleChatMessage(c, content)
          /\ UNCHANGED <<env, live, sessions, obj, att, roomId,
                         tokenPayload, pendingAuth, pendingEnd, timers>>

\* webSocketMessage, case "message".
ChatFrame(c, content) ==
  /\ ~Echo
  /\ Receives(c)
  /\ IF ~InReg(c) THEN NoSession(c, "message")
     ELSE IF ~obj[c].authenticated THEN NotAuthenticated(c, "message")
     ELSE /\ handleChatMessage(c, content)
          /\ UNCHANGED <<env, live, sessions, obj, att, roomId,
                         tokenPayload, pendingAuth, pendingEnd, timers>>

\* handleTypingIndicator.
typingFx(c, isTyping) ==
  LET session == obj[c]
      typingMsg == [userId |-> session.userId, userType |-> session.userType,
                    isTyping |-> isTyping]
  IN broadcast(sessions, obj, "typing", typingMsg, c)

\* webSocketMessage, case "typing".
TypingFrame(c, isTyping) ==
  /\ ~Echo
  /\ Receives(c)
  /\ IF ~InReg(c) THEN NoSession(c, "typing")
     ELSE IF ~obj[c].authenticated THEN Reply(c, "typing", "unauth", <<>>)
     ELSE /\ ev' = Ev("typing", c, TRUE, "ok")
          /\ fx' = typingFx(c, isTyping)
          /\ UNCHANGED <<env, live, sessions, obj, att, roomId,
                         tokenPayload, log, pendingAuth, pendingEnd, timers,
                         pendingSync>>

Reasons == {"", "timeout"}

\* handleEndChat without the test of tokenPayload and roomId.
EndChatFrameUnbound(c, reason) ==
  /\ ~Echo
  /\ Receives(c)
  /\ IF ~InReg(c) THEN NoSession(c, "end_chat")
     ELSE IF ~obj[c].authenticated THEN NotAuthenticated(c, "end_chat")
     ELSE /\ ~pendingEnd[c].active
          /\ Awaits < MaxAwaits
          /\ pendingEnd' = [pendingEnd EXCEPT ![c] =
               [active |-> TRUE, endedBy |-> obj[c].userType,
                reason |-> IF reason # "" THEN reason ELSE "normal"]]
          /\ ev' = Ev("end_chat", c, TRUE, "await")
          /\ fx' = <<Fx("endReading", c, "", TRUE, TRUE,
                        [readingId |-> roomId, endedBy |-> obj[c].userType,
                         reason |-> IF reason # "" THEN reason ELSE "normal"])>>
          /\ UNCHANGED <<env, live, sessions, obj, att, roomId,
                         tokenPayload, log, pendingAuth, timers, pendingSync>>

\* webSocketMessage, case "end_chat", up to the await of phpApi.endReading.
EndChatFrame(c, reason) ==
  /\ ~Echo
  /\ Receives(c)
  /\ IF ~InReg(c) THEN NoSession(c, "end_chat")
     ELSE IF ~obj[c].authenticated THEN NotAuthenticated(c, "end_chat")
     ELSE IF tokenPayload = NullPayload \/ roomId = ""
     THEN Reply(c, "end_chat", "nocontext",
                <<SendFx(c, "error", "Cannot end chat: missing session data", obj)>>)
     ELSE /\ ~pendingEnd[c].active
          /\ Awaits < MaxAwaits
          /\ pendingEnd' = [pendingEnd EXCEPT ![c] =
               [active |-> TRUE, endedBy |-> obj[c].userType,
                reason |-> IF reason # "" THEN reason ELSE "normal"]]
          /\ ev' = Ev("end_chat", c, TRUE, "await")
          /\ fx' = <<Fx("endReading", c, "", TRUE, TRUE,
                        [readingId |-> roomId, endedBy |-> obj[c].userType,
                         reason |-> IF reason # "" THEN reason ELSE "normal"])>>
          /\ UNCHANGED <<env, live, sessions, obj, att, roomId,
                         tokenPayload, log, pendingAuth, timers, pendingSync>>

\* handleEndChat after endReading resolved: the try block to its end, or to
\* the send that throws and on through both catches.
endChatSuccessFx(c, call) ==
  LET endMessage == [endedBy |-> call.endedBy, userName |-> obj[c].userName,
                     reason |-> call.reason, billing |-> "billing"]
      sent == broadcast(sessions, obj, "chat_ended", endMessage, NoConn)
  IN IF CanSend(c)
     THEN sent \o <<SendFx(c, "end_chat_success", call.reason, obj),
                    Fx("setTimeout", c, "", TRUE, TRUE, GraceDelayMs)>>
     ELSE sent \o <<SendFx(c, "end_chat_success", call.reason, obj),
                    SendFx(c, "error", "Failed to end chat. Please try again.", obj)>>
               \o CatchFx(c, obj)

EndChatResolved(c) ==
  /\ ~Echo
  /\ pendingEnd[c].active
  /\ timers < MaxTimers
  /\ pendingEnd' = [pendingEnd EXCEPT ![c] = NoEnd]
  /\ ev' = Ev("end_chat_resolved", c, obj[c].authenticated, "ok")
  /\ fx' = endChatSuccessFx(c, pendingEnd[c])
  /\ timers' = IF CanSend(c) THEN timers + 1 ELSE timers
  /\ obj' = Collect(obj, sessions, pendingAuth, [pendingEnd EXCEPT ![c] = NoEnd])
  /\ UNCHANGED <<env, live, sessions, att, roomId, tokenPayload,
                 log, pendingAuth, pendingSync>>

\* The catch block of handleEndChat telling every session of the failure.
endChatFailureToAll(c) ==
  broadcast(sessions, obj, "error", "Failed to end chat. Please try again.", NoConn)

\* handleEndChat after endReading rejected: the catch block.
endChatFailureFx(c) ==
  SendsTo(c, <<SendFx(c, "error", "Failed to end chat. Please try again.", obj)>>, obj)

EndChatRejected(c) ==
  /\ ~Echo
  /\ pendingEnd[c].active
  /\ pendingEnd' = [pendingEnd EXCEPT ![c] = NoEnd]
  /\ ev' = Ev("end_chat_rejected", c, obj[c].authenticated, "failed")
  /\ fx' = endChatFailureFx(c)
  /\ obj' = Collect(obj, sessions, pendingAuth, [pendingEnd EXCEPT ![c] = NoEnd])
  /\ UNCHANGED <<env, live, sessions, att, roomId, tokenPayload,
                 log, pendingAuth, timers, pendingSync>>

\* socket.close(code) inside try/catch closes an open socket; on any other it
\* changes nothing (what it throws is caught).
Closable(c) == live[c] = "open"

RECURSIVE closeAllFrom(_, _)
closeAllFrom(i, sess) ==
  IF i > Len(sess) THEN <<>>
  ELSE <<Fx("close", sess[i], "", Closable(sess[i]), obj[sess[i]].authenticated,
            CloseNormal)>>
       \o closeAllFrom(i + 1, sess)

\* The setTimeout callback of handleEndChat.
TimerFire ==
  /\ ~Echo
  /\ timers > 0
  /\ timers' = timers - 1
  /\ fx' = closeAllFrom(1, sessions)
  /\ live' = [c \in Conns |->
                IF InReg(c) /\ Closable(c) THEN "closing" ELSE live[c]]
  /\ sessions' = <<>>
  /\ obj' = Collect(obj, <<>>, pendingAuth, pendingEnd)
  /\ ev' = Ev("timer", NoConn, FALSE, "")
  /\ UNCHANGED <<env, att, roomId, tokenPayload, log, pendingAuth,
                 pendingEnd, pendingSync>>

\* webSocketMessage with case "ping" behind the test of session.authenticated.
PingFrameGated(c) ==
  /\ ~Echo
  /\ Receives(c)
  /\ IF ~InReg(c) THEN NoSession(c, "ping")
     ELSE IF ~obj[c].authenticated THEN NotAuthenticated(c, "ping")
     ELSE Reply(c, "ping", "ok", <<SendFx(c, "pong", "timestamp", obj)>>)

\* webSocketMessage, case "ping".
PingFrame(c) ==
  /\ ~Echo
  /\ Receives(c)
  /\ IF ~InReg(c) THEN NoSession(c, "ping")
     ELSE Reply(c, "ping", "ok", <<SendFx(c, "pong", "timestamp", obj)>>)

\* sessions.delete(ws).
MapDelete(sess, c) ==
  LET Keep(d) == d # c IN SelectSeq(sess, Keep)

\* A close or error event is delivered once for a socket that was accepted.
Accepted(c) == live[c] \in {"open", "closing"}

webSocketCloseFx(c) ==
  IF InReg(c) /\ obj[c].authenticated
  THEN LET session == obj[c]
           presenceMsg == [userId |-> session.userId, userType |-> session.userType,
                           userName |-> session.userName, status |-> "offline"]
       IN broadcast(sessions, obj, "presence", presenceMsg, c)
  ELSE <<>>

webSocketClose(c) ==
  /\ ~Echo
  /\ Accepted(c)
  /\ live' = [live EXCEPT ![c] = "gone"]
  /\ ev' = Ev("close", c, InReg(c) /\ obj[c].authenticated, "")
  /\ fx' = webSocketCloseFx(c)
  /\ sessions' = MapDelete(sessions, c)
  /\ obj' = Collect(obj, MapDelete(sessions, c), pendingAuth, pendingEnd)
  /\ att' = [att EXCEPT ![c] = AnonSession]
  /\ UNCHANGED <<env, roomId, tokenPayload, log,
                 pendingAuth, pendingEnd, timers, pendingSync>>

webSocketError(c) ==
  /\ ~Echo
  /\ Accepted(c)
  /\ live' = [live EXCEPT ![c] = "gone"]
  /\ ev' = Ev("error", c, InReg(c) /\ obj[c].authenticated, "")
  /\ fx' = <<>>
  /\ sessions' = MapDelete(sessions, c)
  /\ obj' = Collect(obj, MapDelete(sessions, c), pendingAuth, pendingEnd)
  /\ att' = [att EXCEPT ![c] = AnonSession]
  /\ UNCHANGED <<env, roomId, tokenPayload, log,
                 pendingAuth, pendingEnd, timers, pendingSync>>

\* The transport of an open socket fails; the room learns of it by a later
\* close or error event, and until then every send to the socket throws.
Break(c) ==
  /\ ~Echo
  /\ live[c] = "open"
  /\ live' = [live EXCEPT ![c] = "closing"]
  /\ ev' = Ev("break", c, FALSE, "")
  /\ fx' = <<>>
  /\ UNCHANGED <<env, sessions, obj, att, roomId, tokenPayload, log,
                 pendingAuth, pendingEnd, timers, pendingSync>>

\* syncMessageToPhp calling phpApi.syncMessage again when it failed.
SyncSettledRetry(id, ok) ==
  /\ ~Echo
  /\ id \in pendingSync
  /\ pendingSync' = IF ok THEN pendingSync \ {id} ELSE pendingSync
  /\ ev' = Ev("sync_settled", NoConn, FALSE, IF ok THEN "ok" ELSE "failed")
  /\ fx' = IF ok THEN <<>>
           ELSE <<Fx("sync", NoConn, "message", TRUE, TRUE, [id |-> id])>>
  /\ UNCHANGED <<env, live, sessions, obj, att, roomId, tokenPayload,
                 log, pendingAuth, pendingEnd, timers>>

\* syncMessageToPhp after phpApi.syncMessage settled, either way.
SyncSettled(id, ok) ==
  /\ ~Echo
  /\ id \in pendingSync
  /\ pendingSync' = pendingSync \ {id}
  /\ ev' = Ev("sync_settled", NoConn, FALSE, IF ok THEN "ok" ELSE "failed")
  /\ fx' = <<>>
  /\ UNCHANGED <<env, live, sessions, obj, att, roomId, tokenPayload,
                 log, pendingAuth, pendingEnd, timers>>

\* Nothing the actor started is still running, so the runtime may evict it.
Idle ==
  /\ \A c \in Conns : pendingAuth[c] = "" /\ ~pendingEnd[c].active
  /\ timers = 0
  /\ pendingSync = {}

RECURSIVE restoreFrom(_, _)
restoreFrom(c, sockets) ==
  IF c > NConn THEN <<>>
  ELSE (IF c \in sockets THEN <<c>> ELSE <<>>) \o restoreFrom(c + 1, sockets)

\* ctx.getWebSockets(): the accepted sockets whose close or error event has
\* not run, in the order they were accepted.
getWebSockets == {c \in Conns : Accepted(c)}

\* The constructor after hibernation: fields at their initialisers, sessions
\* from the attachments of ctx.getWebSockets().
Restart ==
  /\ ~Echo
  /\ Idle
  /\ sessions' = restoreFrom(1, getWebSockets)
  /\ obj' = [c \in Conns |-> IF c \in getWebSockets THEN att[c] ELSE AnonSession]
  /\ roomId' = ""
  /\ tokenPayload' = NullPayload
  /\ ev' = Ev("restart", NoConn, FALSE, "")
  /\ fx' = <<>>
  /\ UNCHANGED <<env, live, att, log, pendingAuth, pendingEnd,
                 timers, pendingSync>>

\* fetch on /history (limit 100 in the program); other limits exercise
\* getRecentMessages itself.
History(limit) ==
  /\ ~Echo
  /\ \E order \in SqlOrders(log) :
       fx' = <<Fx("history", NoConn, "history", TRUE, FALSE,
                  [limit |-> limit, rows |-> log,
                   messages |-> getRecentMessages(log, limit, order)])>>
  /\ ev' = Ev("history", NoConn, FALSE, "")
  /\ UNCHANGED <<env, live, sessions, obj, att, roomId, tokenPayload,
                 log, pendingAuth, pendingEnd, timers, pendingSync>>

Next ==
  \/ \E c \in Conns : Upgrade(c)
  \/ \E c \in Conns, data \in AuthData : AuthFrame(c, data)
  \/ \E c \in Conns : AuthResume(c)
  \/ \E c \in Conns, content \in Contents : ChatFrame(c, content)
  \/ \E c \in Conns, isTyping \in BOOLEAN : TypingFrame(c, isTyping)
  \/ \E c \in Conns, reason \in Reasons : EndChatFrame(c, reason)
  \/ \E c \in Conns : EndChatResolved(c)
  \/ \E c \in Conns : EndChatRejected(c)
  \/ TimerFire
  \/ \E c \in Conns : PingFrame(c)
  \/ \E c \in Conns : webSocketClose(c)
  \/ \E c \in Conns : webSocketError(c)
  \/ \E c \in Conns : Break(c)
  \/ \E id \in 1..MaxLog, ok \in BOOLEAN : SyncSettled(id, ok)
  \/ Restart
  \/ History(HistoryLimit)

Spec == Init /\ [][Next]_vars

\* The logs handleChatMessage can have written: row i carries id i, the
\* sanitized content and the identity of an authenticated sender, and a
\* timestamp that Date.now() gave no earlier than that of row i - 1.
Senders ==
  {[userId |-> "u1", userType |-> "client", userName |-> "Alice"],
   [userId |-> "u2", userType |-> "advisor", userName |-> "Bob"]}

RowOf(i, sender, timestamp) ==
  StoredMessage([id |-> i, content |-> sanitizeContent(<<"<", "b", ">">>),
                 userId |-> sender.userId, userType |-> sender.userType,
                 userName |-> sender.userName, timestamp |-> timestamp])

WrittenLogs ==
  UNION {{[i \in 1..n |-> RowOf(i, who[i], at[i])] :
            who \in [1..n -> Senders],
            at \in {t \in [1..n -> 0..MaxStamp] :
                      \A i \in 1..n : i > 1 => t[i - 1] <= t[i]}} :
         n \in 0..MaxRows}

InitRecent ==
  /\ env = [JWT_SECRET |-> TRUE, ENVIRONMENT |-> "production"]
  /\ live = [c \in Conns |-> "unopened"]
  /\ sessions = <<>>
  /\ obj = [c \in Conns |-> AnonSession]
  /\ att = [c \in Conns |-> AnonSession]
  /\ roomId = ""
  /\ tokenPayload = NullPayload
  /\ log \in WrittenLogs
  /\ pendingAuth = [c \in Conns |-> ""]
  /\ pendingEnd = [c \in Conns |-> NoEnd]
  /\ timers = 0
  /\ pendingSync = {}
  /\ ev = [name |-> "init", conn |-> NoConn, authed |-> FALSE, note |-> ""]
  /\ fx = <<>>

NextRecent ==
  \E limit \in (1..MaxLimit) \cup {HistoryLimit} : History(limit)

\* getRecentMessages over every log of up to MaxRows rows.
SpecRecent == InitRecent /\ [][NextRecent]_vars

----------------------------------------------------------------------------
BroadcastKinds == {"message", "typing", "presence", "chat_ended"}

Sends(effects, kind) ==
  {i \in 1..Len(effects) : effects[i].op = "send" /\ effects[i].kind = kind}

Authenticated == {c \in Conns : InReg(c) /\ obj[c].authenticated}

\* C1: no message, typing, presence or chat_ended payload is ever sent to a
\* connection whose session is not authenticated.
C1_BroadcastOnlyToAuthenticated ==
  \A i \in 1..Len(fx) :
    fx[i].op = "send" /\ fx[i].kind \in BroadcastKinds => fx[i].auth

\* A broadcast was delivered while an open connection with an unauthenticated
\* session was in the registry.
C1_Witness ==
  /\ \E i \in 1..Len(fx) :
       fx[i].op = "send" /\ fx[i].kind \in BroadcastKinds /\ fx[i].ok
  /\ \E c \in Conns : InReg(c) /\ ~obj[c].authenticated /\ live[c] = "open"

\* C2: a message, typing or end_chat frame from a session that is not
\* authenticated changes neither the registry nor the log, starts no sync job
\* and no end-room call, and sends nothing but an error to its sender.
C2_UnauthenticatedFrameIsInert ==
  [][\A c \in Conns :
       (/\ ev'.name \in {"message", "typing", "end_chat"}
        /\ ev'.conn = c
        /\ InReg(c)
        /\ ~obj[c].authenticated)
       => /\ UNCHANGED <<sessions, obj, att, log, pendingSync, pendingEnd,
                         timers, roomId, tokenPayload, live>>
          /\ \A i \in 1..Len(fx') :
               /\ fx'[i].op \in {"send", "unhandled"}
               /\ fx'[i].to = c
               /\ fx'[i].op = "send" => fx'[i].kind = "error"]_vars

\* An unauthenticated session sent a message frame while an authenticated
\* session was connected.
C2_Witness ==
  /\ ev.name = "message" /\ ev.note = "unauth"
  /\ \E c \in Authenticated : c # ev.conn /\ live[c] = "open"

\* C3: an accepted message is sent to every authenticated session, the sender
\* included, and a typing notice to every authenticated session but the
\* sender; a send that fails neither stops the others nor raises.
C3_DeliveryToAll ==
  /\ ev.name = "message" /\ ev.note = "accepted" =>
       /\ \A c \in Authenticated :
            \E i \in Sends(fx, "message") : fx[i].to = c
       /\ \A i \in 1..Len(fx) : fx[i].op # "unhandled"
  /\ ev.name = "typing" /\ ev.note = "ok" =>
       /\ \A c \in Authenticated \ {ev.conn} :
            \E i \in Sends(fx, "typing") : fx[i].to = c
       /\ \A i \in Sends(fx, "typing") : fx[i].to # ev.conn
       /\ \A i \in 1..Len(fx) : fx[i].op # "unhandled"

\* A send of an accepted message failed and a later recipient still got it.
C3_Witness ==
  /\ ev.name = "message" /\ ev.note = "accepted"
  /\ \E i, j \in Sends(fx, "message") : i < j /\ ~fx[i].ok /\ fx[j].ok

\* C4: an accepted message appends exactly one log entry, before the broadcast
\* and before the sync job is scheduled; when the append fails there is
\* neither a broadcast nor a sync job.
C4_AppendBeforeBroadcast ==
  [][/\ ev'.name = "message" /\ ev'.note = "accepted" =>
          /\ Len(log') = Len(log) + 1
          /\ SubSeq(log', 1, Len(log)) = log
          /\ fx'[1].op = "insert" /\ fx'[1].ok
          /\ \A i \in 2..Len(fx') : fx'[i].op \in {"send", "sync"}
     /\ ev'.name = "message" /\ ev'.note = "insert_failed" =>
          /\ log' = log
          /\ pendingSync' = pendingSync
          /\ Sends(fx', "message") = {}
          /\ \A i \in 1..Len(fx') : fx'[i].op # "sync"]_vars

\* A message was appended, broadcast and handed to the sync job.
C4_Witness ==
  /\ ev.name = "message" /\ ev.note = "accepted"
  /\ Len(fx) >= 3
  /\ fx[1].op = "insert" /\ fx[2].op = "send" /\ fx[Len(fx)].op = "sync"
  /\ log # <<>> /\ fx[1].body.id = log[Len(log)].id

\* C5: recent(N) with N no larger than the log returns exactly the last N
\* entries in the order they were appended (ascending timestamps, equal
\* timestamps in insertion order) and leaves the log as it was.
C5_RecentIsLastN ==
  ev.name = "history" =>
    LET r == fx[1].body
    IN /\ log = r.rows
       /\ r.limit <= Len(r.rows) =>
            r.messages = SubSeq(r.rows, Len(r.rows) - r.limit + 1, Len(r.rows))

\* The session objects the registry holds are the same after the step.
SameSessions ==
  /\ sessions' = sessions
  /\ \A d \in Conns : InReg(d) => obj'[d] = obj[d]

\* C6: a verified credential whose reading_id differs from the bound room id
\* gets the connection closed with code 4003 and changes neither a session,
\* nor a snapshot, nor the stored token payload.
C6_RoomMismatchRejected ==
  [][\A c \in Conns :
       (/\ ev'.name = "auth_resume" /\ ev'.conn = c
        /\ pendingAuth[c] # ""
        /\ validateToken(pendingAuth[c]) # NullPayload
        /\ roomId # ""
        /\ validateToken(pendingAuth[c]).reading_id # roomId)
       => /\ SameSessions
          /\ UNCHANGED <<att, tokenPayload, roomId, log>>
          /\ \A i \in 1..Len(fx') :
               fx'[i].op = "send" => fx'[i].kind \in {"auth_error", "error"}
          /\ live[c] = "open" =>
               /\ live'[c] = "closing"
               /\ \E i \in 1..Len(fx') :
                    /\ fx'[i].op = "close" /\ fx'[i].to = c
                    /\ fx'[i].ok /\ fx'[i].body = CloseForbidden]_vars

\* An authenticated session of room r1 presented a token of another room and
\* was closed with 4003.
C6_Witness ==
  /\ ev.name = "auth_resume" /\ ev.note = "mismatch" /\ ev.authed
  /\ InReg(ev.conn) /\ obj[ev.conn].authenticated
  /\ tokenPayload # NullPayload /\ tokenPayload.reading_id = roomId
  /\ \E i \in 1..Len(fx) : fx[i].op = "close" /\ fx[i].body = CloseForbidden

\* C7: end_chat while the room has no bound context is answered with an error
\* to the caller alone: no end-room call, no chat_ended, no connection closed.
C7_EndChatNeedsContext ==
  [][\A c \in Conns :
       (/\ ev'.name = "end_chat" /\ ev'.conn = c
        /\ InReg(c) /\ obj[c].authenticated
        /\ (tokenPayload = NullPayload \/ roomId = ""))
       => /\ UNCHANGED <<pendingEnd, live, sessions, obj, timers>>
          /\ fx' # <<>>
          /\ \A i \in 1..Len(fx') :
               /\ fx'[i].op \in {"send", "unhandled"}
               /\ fx'[i].to = c
               /\ fx'[i].op = "send" => fx'[i].kind = "error"]_vars

\* An authenticated session asked to end a room without context while another
\* authenticated session was connected, and got the error.
C7_Witness ==
  /\ ev.name = "end_chat" /\ ev.note = "nocontext"
  /\ fx[1].op = "send" /\ fx[1].kind = "error" /\ fx[1].ok
  /\ \E c \in Authenticated : c # ev.conn /\ live[c] = "open"

\* C8: once the end-room call has succeeded, chat_ended has gone to every
\* authenticated session and, while a connection of the room is still open,
\* the close of all connections is pending, set up after the broadcast, so
\* that each gets closed with 1000 and the registry is emptied.
C8_CloseFollowsSuccess ==
  ev.name = "end_chat_resolved" =>
    /\ \A c \in Authenticated : \E i \in Sends(fx, "chat_ended") : fx[i].to = c
    /\ (\E c \in Conns : InReg(c) /\ live[c] = "open") =>
         /\ timers > 0
         /\ \E i \in 1..Len(fx) :
              /\ fx[i].op = "setTimeout" /\ fx[i].body = GraceDelayMs
              /\ \A j \in Sends(fx, "chat_ended") : j < i

\* C9: when the end-room call fails only the initiator is sent an error; no
\* chat_ended, no close, registry and log as they were; an end_chat right
\* after it from the same session issues a new end-room call.
C9_FailureLeavesRoomOpen ==
  [][/\ \A c \in Conns :
          ev'.name = "end_chat_rejected" /\ ev'.conn = c /\ pendingEnd[c].active
          => /\ SameSessions
             /\ UNCHANGED <<live, log, timers, roomId, tokenPayload, att>>
             /\ ~pendingEnd'[c].active
             /\ fx' # <<>>
             /\ \A i \in 1..Len(fx') :
                  /\ fx'[i].op \in {"send", "unhandled"}
                  /\ fx'[i].to = c
                  /\ fx'[i].op = "send" => fx'[i].kind = "error"
     /\ \A c \in Conns :
          (/\ ev.name = "end_chat_rejected"
           /\ ev'.name = "end_chat" /\ ev'.conn = c
           /\ InReg(c) /\ obj[c].authenticated)
          => /\ pendingEnd'[c].active
             /\ Len(fx') = 1 /\ fx'[1].op = "endReading"]_vars

\* The end-room call failed while two authenticated sessions were connected
\* and the initiator got the error.
C9_Witness ==
  /\ ev.name = "end_chat_rejected"
  /\ fx[1].op = "send" /\ fx[1].kind = "error" /\ fx[1].ok
  /\ \E c \in Authenticated : c # ev.conn /\ live[c] = "open"

Occurrences(s, x) == Cardinality({i \in 1..Len(s) : s[i] = x})

\* C10: the participant list of auth_success holds exactly the identities of
\* the sessions authenticated at that moment, one entry per session, the one
\* that just authenticated among them.
C10_ParticipantsAreAuthenticated ==
  ev.name \in {"auth", "auth_resume"} /\ ev.note = "ok" =>
    /\ fx[1].op = "send" /\ fx[1].kind = "auth_success" /\ fx[1].to = ev.conn
    /\ LET list == fx[1].body.participants
       IN /\ Len(list) = Cardinality(Authenticated)
          /\ \A c \in Authenticated :
               Occurrences(list, Participant(obj[c]))
                 = Cardinality({d \in Authenticated :
                                  Participant(obj[d]) = Participant(obj[c])})
          /\ ev.conn \in Authenticated

\* The second of two successful auths from different identities: its list
\* holds both.
C10_Witness ==
  /\ ev.name \in {"auth", "auth_resume"} /\ ev.note = "ok"
  /\ fx[1].kind = "auth_success" /\ fx[1].ok
  /\ Len(fx[1].body.participants) = 2
  /\ fx[1].body.participants[1] # fx[1].body.participants[2]

\* C11: an auth event on a session that is already authenticated never
\* changes that session's userId, userType or userName.
C11_IdentitySetOnce ==
  [][\A c \in Conns :
       (/\ ev'.name \in {"auth", "auth_resume"} /\ ev'.conn = c
        /\ InReg(c) /\ obj[c].authenticated)
       => Participant(obj'[c]) = Participant(obj[c])]_vars

AuthFailures == {"invalid", "mismatch", "token_required"}

\* C12: a failed auth attempt sends auth_error to the caller, leaves the
\* connection closed (by close(4001), or close(4003) for a room mismatch,
\* when it was still open) and sets authenticated on no session; an attempt
\* with a token that does not verify, or without a token outside development
\* mode, is such a failure.
C12_FailedAuthIsTerminal ==
  [][\A c \in Conns :
       /\ (/\ ev'.name \in {"auth", "auth_resume"} /\ ev'.conn = c
           /\ ev'.note \in AuthFailures)
          => /\ fx'[1].op = "send" /\ fx'[1].kind = "auth_error" /\ fx'[1].to = c
             /\ live'[c] # "open"
             /\ live[c] = "open" =>
                  /\ Len(fx') = 2
                  /\ fx'[2].op = "close" /\ fx'[2].to = c /\ fx'[2].ok
                  /\ fx'[2].body = IF ev'.note = "mismatch"
                                   THEN CloseForbidden ELSE CloseUnauthorized
             /\ sessions' = sessions
             /\ \A d \in Conns :
                  InReg(d) => obj'[d].authenticated = obj[d].authenticated
       /\ (/\ ev'.name = "auth_resume" /\ ev'.conn = c
           /\ validateToken(pendingAuth[c]) = NullPayload)
          => ev'.note = "invalid"
       /\ (/\ ev'.name = "auth" /\ ev'.conn = c /\ InReg(c)
           /\ ~env.JWT_SECRET /\ env.ENVIRONMENT # "development")
          => ev'.note = "token_required"]_vars

\* A token that does not verify was refused on an open connection whose
\* session was not authenticated, with another session connected.
C12_Witness ==
  /\ ev.name = "auth_resume" /\ ev.note = "invalid" /\ ~ev.authed
  /\ Len(fx) = 2 /\ fx[2].op = "close" /\ fx[2].body = CloseUnauthorized
  /\ live[ev.conn] = "closing"
  /\ InReg(ev.conn) /\ ~obj[ev.conn].authenticated
  /\ \E c \in Conns : c # ev.conn /\ InReg(c)

Registry(sess) == {sess[i] : i \in 1..Len(sess)}

\* C13: the snapshot of every live connection equals its session in memory,
\* and a restart rebuilds the registry as it was: the same live connections
\* with the same identities and authenticated flags.
C13_RestartKeepsRegistry ==
  [][/\ \A c \in Conns : InReg(c) /\ Accepted(c) => att[c] = obj[c]
     /\ ev'.name = "restart" =>
          /\ Registry(sessions') \cap getWebSockets
               = Registry(sessions) \cap getWebSockets
          /\ \A c \in Registry(sessions) \cap getWebSockets :
               obj'[c] = obj[c]]_vars

\* C14: a ping frame on any connection, whether its session is authenticated,
\* unauthenticated or absent from the registry, is answered with a pong to
\* that connection and changes no room state.
C14_PingAnswered ==
  [][ev'.name = "ping" =>
       /\ fx' # <<>>
       /\ fx'[1].op = "send" /\ fx'[1].kind = "pong" /\ fx'[1].to = ev'.conn
       /\ UNCHANGED <<live, sessions, obj, att, roomId, tokenPayload, log,
                      pendingAuth, pendingEnd, timers, pendingSync>>]_vars

\* C14 as amended: a ping on a connection whose session is in the registry,
\* authenticated or not, is answered with a pong to that connection; a ping
\* on a connection absent from the registry is answered with the error "No
\* session" and no pong; in both cases no room state changes.
C14_PingAnsweredInRegistry ==
  [][\A c \in Conns :
       ev'.name = "ping" /\ ev'.conn = c =>
         /\ fx' # <<>>
         /\ fx'[1].op = "send" /\ fx'[1].to = c
         /\ fx'[1].kind = IF InReg(c) THEN "pong" ELSE "error"
         /\ \A i \in 2..Len(fx') : fx'[i].kind # "pong"
         /\ \A i \in 1..Len(fx') : fx'[i].to = c
         /\ UNCHANGED <<live, sessions, obj, att, roomId, tokenPayload, log,
                        pendingAuth, pendingEnd, timers, pendingSync>>]_vars

\* An unauthenticated session got its pong while an authenticated session
\* was connected.
C14_Witness ==
  /\ ev.name = "ping" /\ InReg(ev.conn) /\ ~obj[ev.conn].authenticated
  /\ fx = <<SendFx(ev.conn, "pong", "timestamp", obj)>> /\ fx[1].ok
  /\ \E c \in Authenticated : c # ev.conn

SyncEffects(effects) == {i \in 1..Len(effects) : effects[i].op = "sync"}

\* C15: the sync of a message does not affect the room.  The message is in
\* the log and its broadcast is done while the sync is still in flight; the
\* end of a sync, failed or not, sends nothing and changes neither log nor
\* registry; a sync is started only by the acceptance of its message, once.
C15_SyncDoesNotAffectRoom ==
  [][/\ SyncEffects(fx') # {} =>
          /\ ev'.name = "message" /\ ev'.note = "accepted"
          /\ Cardinality(SyncEffects(fx')) = 1
          /\ \A i \in SyncEffects(fx') :
               /\ fx'[i].body.id = Len(log') /\ fx'[i].body.id \notin pendingSync
               /\ fx'[i].body.id \in pendingSync'
               /\ log'[Len(log')] = StoredMessage(fx'[i].body)
               /\ \A c \in Authenticated :
                    \E j \in Sends(fx', "message") : j < i /\ fx'[j].to = c
     /\ ev'.name = "sync_settled" =>
          /\ fx' = <<>>
          /\ pendingSync' \subseteq pendingSync /\ pendingSync' # pendingSync
          /\ UNCHANGED <<live, sessions, obj, att, log, roomId, tokenPayload,
                         pendingAuth, pendingEnd, timers>>]_vars

\* The sync of a logged message failed while authenticated sessions were
\* connected.
C15_Witness ==
  /\ ev.name = "sync_settled" /\ ev.note = "failed"
  /\ log # <<>>
  /\ \E c, d \in Authenticated : c # d /\ live[c] = "open" /\ live[d] = "open"

\* C16: a successful auth sends presence online to every other authenticated
\* session and not to the joiner; the close of an authenticated session sends
\* presence offline to every authenticated session that remains and removes
\* the session; the close of an unauthenticated session removes it and sends
\* no presence.
C16_PresenceOnJoinAndLeave ==
  [][\A c \in Conns :
       /\ (ev'.name \in {"auth", "auth_resume"} /\ ev'.note = "ok" /\ ev'.conn = c)
          => /\ \A d \in Registry(sessions') \ {c} :
                  obj'[d].authenticated =>
                    \E i \in Sends(fx', "presence") :
                      fx'[i].to = d /\ fx'[i].body.status = "online"
             /\ \A i \in Sends(fx', "presence") : fx'[i].to # c
       /\ (ev'.name = "close" /\ ev'.conn = c /\ InReg(c))
          => /\ c \notin Registry(sessions')
             /\ IF obj[c].authenticated
                THEN \A d \in Authenticated \ {c} :
                       \E i \in Sends(fx', "presence") :
                         /\ fx'[i].to = d /\ fx'[i].body.status = "offline"
                         /\ fx'[i].body.userId = obj[c].userId
                ELSE fx' = <<>>]_vars

\* C17: chat messages are broadcast in the order of the log, to every session
\* alike: whatever else is pending, the only message a step sends is the row
\* that this step appended, once to each authenticated session, so a session
\* receives row k in the step that appends row k and the rows in rising k.
C17_BroadcastInLogOrder ==
  [][Sends(fx', "message") # {} =>
       /\ ev'.name = "message" /\ ev'.note = "accepted"
       /\ Len(log') = Len(log) + 1
       /\ SubSeq(log', 1, Len(log)) = log
       /\ \A i \in Sends(fx', "message") :
            /\ fx'[i].body.id = Len(log')
            /\ StoredMessage(fx'[i].body) = log'[Len(log')]
            /\ \A j \in Sends(fx', "message") : fx'[j].to = fx'[i].to => j = i
       /\ \A c \in Authenticated :
            \E i \in Sends(fx', "message") : fx'[i].to = c]_vars

\* The second row of the log went out to two open authenticated sessions
\* while a token validation or an end-reading call was pending.
C17_Witness ==
  /\ ev.name = "message" /\ ev.note = "accepted"
  /\ Len(log) = 2
  /\ \E i, j \in Sends(fx, "message") :
       /\ i < j /\ fx[i].ok /\ fx[j].ok
       /\ fx[i].body.id = 2 /\ fx[j].body.id = 2
  /\ Awaits > 0

\* C18: once a credential auth has bound the token payload, no later auth
\* event changes the client id and advisor id used for sync and end-reading.
C18_ContextFixedByFirstAuth ==
  [][tokenPayload # NullPayload /\ ev'.name \in {"auth", "auth_resume"} =>
       /\ tokenPayload' # NullPayload
       /\ tokenPayload'.client_id = tokenPayload.client_id
       /\ tokenPayload'.advisor_id = tokenPayload.advisor_id]_vars

\* C19: a verified credential whose reading_id is not the room the actor's
\* connections were opened under authenticates no session and binds nothing,
\* also after a restart.
C19_RoomScopeAlwaysChecked ==
  [][\A c \in Conns :
       (/\ ev'.name = "auth_resume" /\ ev'.conn = c
        /\ validateToken(pendingAuth[c]) # NullPayload
        /\ validateToken(pendingAuth[c]).reading_id # RoomName)
       => /\ ~obj'[c].authenticated \/ (InReg(c) /\ obj'[c] = obj[c])
          /\ tokenPayload' = tokenPayload]_vars

\* C20: while the registry holds a session authenticated by credential, the
\* room id and the token payload are bound, also after a restart.
C20_ContextBoundForCredentialSessions ==
  (env.JWT_SECRET /\ \E c \in Conns : InReg(c) /\ Accepted(c) /\ obj[c].authenticated)
    => tokenPayload # NullPayload /\ roomId # ""

EndReadingCalls(effects) ==
  {i \in 1..Len(effects) : effects[i].op = "endReading"}

\* C21: once chat_ended has been broadcast the room is ended: no further
\* message is appended or broadcast, no further end-reading call is made and
\* no second chat_ended goes out.  Stated for the time from the broadcast to
\* the run of the close timer, which is pending exactly then.
C21_RoomEndedAfterChatEnded ==
  [][timers > 0 =>
       /\ log' = log
       /\ Sends(fx', "message") = {}
       /\ EndReadingCalls(fx') = {}
       /\ Sends(fx', "chat_ended") = {}]_vars

\* C22: every connection in the registry has had neither its close nor its
\* error event, and so has every participant of a participant list.
C22_RegistryHoldsLiveConnections ==
  /\ \A c \in Conns : InReg(c) => Accepted(c)
  /\ ev.name \in {"auth", "auth_resume"} /\ ev.note = "ok" =>
       Len(fx[1].body.participants)
         <= Cardinality({c \in Conns : Accepted(c) /\ obj[c].authenticated})

\* C23: when the close or the error event of an authenticated session takes
\* it out of the registry, every authenticated session that remains is sent
\* presence offline for it.
C23_OfflineOnCloseAndError ==
  [][\A c \in Conns :
       (/\ ev'.name \in {"close", "error"} /\ ev'.conn = c
        /\ InReg(c) /\ obj[c].authenticated)
       => /\ c \notin Registry(sessions')
          /\ \A d \in Authenticated \ {c} :
               \E i \in Sends(fx', "presence") :
                 /\ fx'[i].to = d /\ fx'[i].body.status = "offline"
                 /\ fx'[i].body.userId = obj[c].userId]_vars
====
